---- MODULE Spec2Model ----
(***************************************************************************)
(* Model of the ride-tracking core of taxi_backend: the ride store and its *)
(* REST handlers (routers/rides.py, routers/drivers.py), the in-memory     *)
(* broker with its rooms, the broadcast engine and the WebSocket session   *)
(* runner (realtime.py).                                                   *)
(*                                                                         *)
(* Scheduling: realtime.py runs on one asyncio event loop.  A coroutine    *)
(* gives up control only at an await that really suspends: network I/O     *)
(* (accept, send, receive, close) and asyncio.sleep.  Acquiring an         *)
(* uncontended asyncio.Lock does not suspend, and no lock of the module is *)
(* held across a suspending await, so the code between two suspension      *)
(* points is one atomic action here.  The REST handlers are synchronous    *)
(* functions with one commit at the end.                                   *)
(***************************************************************************)
EXTENDS Integers, Sequences, FiniteSets, TLC

\* ---------------------------------------------------------------- bounds
NSessions == 2
MaxRequests == 5
MaxEvents == 2
MaxBroadcasts == 3
MaxCalls == 2
MaxRideRequests == 3
NTasks == 3
MaxLockCalls == 4

\* ------------------------------------------------------ program constants
MAX_CONSECUTIVE_SEND_TIMEOUTS == 3
WS_POLICY_VIOLATION == 1008
WS_INTERNAL_ERROR == 1011
HTTP_200_OK == 200
HTTP_201_CREATED == 201
HTTP_403_FORBIDDEN == 403
HTTP_404_NOT_FOUND == 404
HTTP_409_CONFLICT == 409

\* ------------------------------------------------------------- universes
None == "None"

Riders == {"R1", "R2"}
Drivers == {"D1", "D2"}
Users == Riders \cup Drivers

\* users.role (models/user.py)
UserRole(u) == IF u \in Riders THEN "rider" ELSE "driver"

\* A bearer credential: absent, undecodable/expired, or a well-formed token
\* whose subject is a user id.  "U9" is a subject with no row in users.
UnknownUser == "U9"
Tokens == {"missing", "invalid"} \cup Users \cup {UnknownUser}

RideIds == {"ride1"}
Channels == {"driver", "rider", "admin"}

\* db.scalar(select(Ride)...) finds no row
NoRide == [rider_id |-> None, driver_id |-> None, status |-> None]

RideStatus == {"requested", "assigned", "enroute", "started", "completed", "canceled"}

VARIABLES
    rides,      \* rides table: ride id -> row, or NoRide
    events,     \* ride_events table, in insertion order
    drivers,    \* drivers table: driver id -> "available" | "unavailable", or None (no row)
    reqLeft,    \* REST requests the environment may still issue
    reqNo,      \* number of REST requests served
    lastReq,    \* the last REST request and its response code
    txn,        \* user -> the assign request of the user that has passed its
                \* checks and not yet committed, NoTxn when there is none
    vt,         \* direct calls of _validate_transition: inputs and outcome
    rooms,      \* broker._rooms: ride id -> reference of its RideRoom, 0 when absent
    heap,       \* the RideRoom objects, by reference
    sess,       \* the run_ws_session coroutines, their Connection and socket
    bcast,      \* the broadcast_to_ride call in flight
    envLeft,    \* events the environment may still cause: inbound frames,
                \* heartbeat ticks and broadcast_to_ride calls
    got,        \* ride id -> room returned by get_room since the last removal
    cleanup,    \* what the cleanup_if_empty call of the last step saw and did
    held,       \* the locks held while the tasks wait for the network or sleep:
                \* RegistryLock for broker._lock, a room reference for room._lock
    task        \* the callers of the broker and room methods, lock by lock:
                \* the call each is in and the locks it has acquired in it

storeVars == <<rides, events, drivers, reqLeft, reqNo, lastReq, txn>>
wsVars == <<rooms, heap, sess, bcast, envLeft, got, cleanup, held, task>>

\* ------------------------------------------------- ride state machine
\* _allowed_transitions with canceled left out of the started row
MutAllowedNoCancelFromStarted(current) ==
    CASE current = "requested" -> {"assigned", "canceled"}
      [] current = "assigned" -> {"enroute", "canceled"}
      [] current = "enroute" -> {"started", "canceled"}
      [] current = "started" -> {"completed"}
      [] OTHER -> {}

\* _allowed_transitions with requested added to the assigned row
MutAllowedBackToRequested(current) ==
    CASE current = "requested" -> {"assigned", "canceled"}
      [] current = "assigned" -> {"enroute", "canceled", "requested"}
      [] current = "enroute" -> {"started", "canceled"}
      [] current = "started" -> {"completed", "canceled"}
      [] OTHER -> {}

\* _allowed_transitions with a canceled ride allowed back to assigned
MutAllowedReopenCanceled(current) ==
    CASE current = "requested" -> {"assigned", "canceled"}
      [] current = "assigned" -> {"enroute", "canceled"}
      [] current = "enroute" -> {"started", "canceled"}
      [] current = "started" -> {"completed", "canceled"}
      [] current = "canceled" -> {"assigned"}
      [] OTHER -> {}

\* _allowed_transitions().get(current, set())
AllowedTransitions(current) ==
    CASE current = "requested" -> {"assigned", "canceled"}
      [] current = "assigned" -> {"enroute", "canceled"}
      [] current = "enroute" -> {"started", "canceled"}
      [] current = "started" -> {"completed", "canceled"}
      [] current = "completed" -> {}
      [] current = "canceled" -> {}
      [] OTHER -> {}

\* _validate_transition: "ok" when it returns, "conflict" when it raises 409
ValidateTransition(current, new) ==
    IF new = current THEN "ok"
    ELSE IF new \notin AllowedTransitions(current) THEN "conflict"
    ELSE "ok"

\* _add_event: one more ride_events row
AddEvent(evs, ride_id, event_type, payload) ==
    Append(evs, [ride_id |-> ride_id, event_type |-> event_type, payload |-> payload])

EventsOf(ride_id) == SelectSeq(events, LAMBDA e : e.ride_id = ride_id)

Request(op, user, ride_id, arg, code) ==
    [op |-> op, user |-> user, ride_id |-> ride_id, arg |-> arg, code |-> code]

NoTxn == [pc |-> "idle", ride_id |-> None]

VtInit == [current |-> "requested", new |-> "requested", result |-> None, calls |-> 0]

StoreInit(budget, profiles) ==
    /\ rides = [r \in RideIds |-> NoRide]
    /\ events = <<>>
    /\ drivers \in [Drivers -> profiles]
    /\ reqLeft = budget
    /\ reqNo = 0
    /\ lastReq = Request(None, None, None, None, 0)
    /\ txn = [u \in Users |-> NoTxn]

\* Every REST request consumes one unit of the environment's budget and
\* leaves its response code in lastReq.
Respond(op, user, ride_id, arg, code) ==
    /\ reqLeft' = reqLeft - 1
    /\ reqNo' = reqNo + 1
    /\ lastReq' = Request(op, user, ride_id, arg, code)

Rejected(op, user, ride_id, arg, code) ==
    /\ Respond(op, user, ride_id, arg, code)
    /\ UNCHANGED <<rides, events, drivers>>

\* uuid4(): an id no row uses yet
FreshRideIds == {r \in RideIds : rides[r] = NoRide}

\* POST /rides
create_ride(user) ==
    /\ reqLeft > 0
    /\ IF UserRole(user) # "rider"
       THEN Rejected("create", user, None, None, HTTP_403_FORBIDDEN)
       ELSE \E id \in FreshRideIds :
              /\ rides' = [rides EXCEPT ![id] =
                              [rider_id |-> user, driver_id |-> None, status |-> "requested"]]
              /\ events' = AddEvent(events, id, "ride_created", [rider_id |-> user])
              /\ Respond("create", user, id, None, HTTP_201_CREATED)
              /\ UNCHANGED drivers

\* assign_driver without the availability check of lines 238-243
MutAssignCodeIgnoresAvailability(user, ride_id, driver_id) ==
    IF UserRole(user) # "driver" THEN HTTP_403_FORBIDDEN
    ELSE IF driver_id # user THEN HTTP_403_FORBIDDEN
    ELSE IF rides[ride_id] = NoRide THEN HTTP_404_NOT_FOUND
    ELSE IF rides[ride_id].driver_id # None /\ rides[ride_id].driver_id # user
         THEN HTTP_409_CONFLICT
    ELSE IF rides[ride_id].status # "requested" THEN HTTP_409_CONFLICT
    ELSE HTTP_200_OK

\* The response code of assign_driver, in the order of its checks
\* (require_driver, then lines 219-243).
AssignCode(user, ride_id, driver_id) ==
    IF UserRole(user) # "driver" THEN HTTP_403_FORBIDDEN
    ELSE IF driver_id # user THEN HTTP_403_FORBIDDEN
    ELSE IF rides[ride_id] = NoRide THEN HTTP_404_NOT_FOUND
    ELSE IF rides[ride_id].driver_id # None /\ rides[ride_id].driver_id # user
         THEN HTTP_409_CONFLICT
    ELSE IF rides[ride_id].status # "requested" THEN HTTP_409_CONFLICT
    ELSE IF drivers[user] # "available" THEN HTTP_409_CONFLICT
    ELSE HTTP_200_OK

\* POST /rides/{ride_id}/assign
assign_driver(user, ride_id, driver_id) ==
    /\ reqLeft > 0
    /\ LET code == AssignCode(user, ride_id, driver_id) IN
       IF code # HTTP_200_OK
       THEN Rejected("assign", user, ride_id, driver_id, code)
       ELSE /\ rides' = [rides EXCEPT ![ride_id].driver_id = user,
                                      ![ride_id].status = "assigned"]
            /\ events' = AddEvent(events, ride_id, "driver_assigned", [driver_id |-> user])
            /\ Respond("assign", user, ride_id, driver_id, code)
            /\ UNCHANGED drivers

\* Requests run in worker threads, each with its own database session and
\* transaction (get_db); the ride row is read without a lock and the engine
\* sets no isolation level, so a request sees what was committed when it
\* reads, and its UPDATE by primary key overwrites what was committed since.
InFlight == {u \in Users : txn[u].pc = "writing"}

\* assign_driver, lines 219-243: the reads and the checks
assign_driver_read(user, ride_id, driver_id) ==
    /\ txn[user].pc = "idle"
    /\ reqLeft > Cardinality(InFlight)
    /\ LET code == AssignCode(user, ride_id, driver_id) IN
       IF code # HTTP_200_OK
       THEN Rejected("assign", user, ride_id, driver_id, code) /\ UNCHANGED txn
       ELSE /\ txn' = [txn EXCEPT ![user] = [pc |-> "writing", ride_id |-> ride_id]]
            /\ UNCHANGED <<rides, events, drivers, reqLeft, reqNo, lastReq>>
    /\ UNCHANGED <<vt, wsVars>>

\* assign_driver, lines 245-259: the writes and the commit
assign_driver_commit(user) ==
    /\ txn[user].pc = "writing"
    /\ LET ride_id == txn[user].ride_id IN
       /\ rides' = [rides EXCEPT ![ride_id].driver_id = user,
                                 ![ride_id].status = "assigned"]
       /\ events' = AddEvent(events, ride_id, "driver_assigned", [driver_id |-> user])
       /\ Respond("assign", user, ride_id, user, HTTP_200_OK)
    /\ txn' = [txn EXCEPT ![user] = NoTxn]
    /\ UNCHANGED <<drivers, vt, wsVars>>

\* _ensure_user_can_view_ride: TRUE when it returns, FALSE when it raises 403
CanViewRide(user, ride) ==
    \/ ride.rider_id = user
    \/ (ride.driver_id # None /\ ride.driver_id = user)

\* update_ride_status without the rider-only-cancels check of lines 304-305
MutStatusCodeRiderAnyStatus(user, ride_id, desired) ==
    LET ride == rides[ride_id] IN
    IF ride = NoRide THEN HTTP_404_NOT_FOUND
    ELSE IF ~CanViewRide(user, ride) THEN HTTP_403_FORBIDDEN
    ELSE IF UserRole(user) = "rider" /\ ride.status \in {"completed", "canceled"}
         THEN HTTP_409_CONFLICT
    ELSE IF UserRole(user) = "driver" /\ ride.driver_id # user THEN HTTP_403_FORBIDDEN
    ELSE IF ValidateTransition(ride.status, desired) = "conflict" THEN HTTP_409_CONFLICT
    ELSE HTTP_200_OK

\* update_ride_status that lets any driver update an assigned ride
MutStatusCodeAnyDriver(user, ride_id, desired) ==
    LET ride == rides[ride_id] IN
    IF ride = NoRide THEN HTTP_404_NOT_FOUND
    ELSE IF UserRole(user) = "rider" /\ ride.rider_id # user THEN HTTP_403_FORBIDDEN
    ELSE IF UserRole(user) = "rider" /\ desired # "canceled" THEN HTTP_403_FORBIDDEN
    ELSE IF UserRole(user) = "rider" /\ ride.status \in {"completed", "canceled"}
         THEN HTTP_409_CONFLICT
    ELSE IF UserRole(user) = "driver" /\ ride.driver_id = None THEN HTTP_409_CONFLICT
    ELSE IF ValidateTransition(ride.status, desired) = "conflict" THEN HTTP_409_CONFLICT
    ELSE HTTP_200_OK

\* The response code of update_ride_status, in the order of its checks.
StatusCode(user, ride_id, desired) ==
    LET ride == rides[ride_id] IN
    IF ride = NoRide THEN HTTP_404_NOT_FOUND
    ELSE IF ~CanViewRide(user, ride) THEN HTTP_403_FORBIDDEN
    ELSE IF UserRole(user) = "rider" /\ ride.rider_id # user THEN HTTP_403_FORBIDDEN
    ELSE IF UserRole(user) = "rider" /\ desired # "canceled" THEN HTTP_403_FORBIDDEN
    ELSE IF UserRole(user) = "rider" /\ ride.status \in {"completed", "canceled"}
         THEN HTTP_409_CONFLICT
    ELSE IF UserRole(user) = "driver" /\ ride.driver_id = None THEN HTTP_409_CONFLICT
    ELSE IF UserRole(user) = "driver" /\ ride.driver_id # user THEN HTTP_403_FORBIDDEN
    ELSE IF ValidateTransition(ride.status, desired) = "conflict" THEN HTTP_409_CONFLICT
    ELSE HTTP_200_OK

\* PATCH /rides/{ride_id}/status
update_ride_status(user, ride_id, desired) ==
    /\ reqLeft > 0
    /\ LET code == StatusCode(user, ride_id, desired) IN
       IF code # HTTP_200_OK
       THEN Rejected("status", user, ride_id, desired, code)
       ELSE /\ rides' = [rides EXCEPT ![ride_id].status = desired]
            /\ events' = AddEvent(events, ride_id, "status_changed",
                                  [from |-> rides[ride_id].status, to |-> desired,
                                   by_user_id |-> user])
            /\ Respond("status", user, ride_id, desired, code)
            /\ UNCHANGED drivers

\* PATCH /drivers/me/availability (creates the drivers row if absent)
update_my_availability(user, is_available) ==
    /\ reqLeft > 0
    /\ IF UserRole(user) # "driver"
       THEN Rejected("availability", user, None, is_available, HTTP_403_FORBIDDEN)
       ELSE /\ drivers' = [drivers EXCEPT ![user] = is_available]
            /\ Respond("availability", user, None, is_available, HTTP_200_OK)
            /\ UNCHANGED <<rides, events>>

\* ------------------------------------------------------------ rooms
Sessions == 1..NSessions

\* References of RideRoom objects.  The registry, every session and the
\* broadcast in flight can each hold one, and get_room needs one more.
RoomRefs == 1..(NSessions + Cardinality(RideIds) + 2)

\* RideRoom.last_location is None
NoLocation == [driver_id |-> None, lat |-> 0, lng |-> 0]

\* RideRoom.__init__
\* (adds and removes count, per channel, the add calls made on the object and
\* the remove calls made for a connection of the channel; the code keeps no
\* such counters, they record the calls for the properties below)
NewRoom(ride_id) ==
    [ride_id |-> ride_id, riders |-> <<>>, drivers |-> <<>>, admins |-> <<>>,
     last_location |-> NoLocation,
     adds |-> [ch \in Channels |-> 0], removes |-> [ch \in Channels |-> 0]]

\* a reference no live object has
FreeRoom == NewRoom(None)

\* A dict[UUID, Connection] keeps insertion order; a Connection is named by
\* the session that created it.
DictHas(d, k) == \E i \in DOMAIN d : d[i].k = k
DictSet(d, k, v) ==
    IF DictHas(d, k)
    THEN [i \in DOMAIN d |-> IF d[i].k = k THEN [k |-> k, v |-> v] ELSE d[i]]
    ELSE Append(d, [k |-> k, v |-> v])
DictPop(d, k) == SelectSeq(d, LAMBDA e : e.k # k)
DictValues(d) == [i \in DOMAIN d |-> d[i].v]

\* RideRoom.add, without the Unknown-channel branch
MutRoomAddAlwaysRider(room, user_id, conn, channel) ==
    [room EXCEPT !.riders = DictSet(@, user_id, conn)]

\* RideRoom.add (channel is one of the three route values, see ConnectChannels)
RoomAdd(room, user_id, conn, channel) ==
    IF channel = "rider" THEN [room EXCEPT !.riders = DictSet(@, user_id, conn)]
    ELSE IF channel = "driver" THEN [room EXCEPT !.drivers = DictSet(@, user_id, conn)]
    ELSE [room EXCEPT !.admins = DictSet(@, user_id, conn)]

\* RideRoom.remove that leaves the drivers mapping alone
MutRoomRemoveKeepsDrivers(room, user_id) ==
    [room EXCEPT !.riders = DictPop(@, user_id),
                 !.admins = DictPop(@, user_id)]

\* RideRoom.remove
RoomRemove(room, user_id) ==
    [room EXCEPT !.riders = DictPop(@, user_id),
                 !.drivers = DictPop(@, user_id),
                 !.admins = DictPop(@, user_id)]

\* RideRoom.snapshot
Snapshot(room) ==
    [rider_count |-> Len(room.riders), driver_count |-> Len(room.drivers),
     admin_count |-> Len(room.admins), last_location |-> room.last_location]

\* the Connections of a room, whatever the mapping
RoomConns(room) ==
    {room.riders[i].v : i \in DOMAIN room.riders}
        \cup {room.drivers[i].v : i \in DOMAIN room.drivers}
        \cup {room.admins[i].v : i \in DOMAIN room.admins}

\* ----------------------------------------------------------- broker
\* The broker state an action works on: the registry, the objects, the
\* record of what get_room returned, and the value of the last call.
NoCleanup ==
    [called |-> FALSE, ride_id |-> None, had_entry |-> FALSE,
     rider_count |-> 0, driver_count |-> 0, admin_count |-> 0, removed |-> FALSE]

Broker ==
    [rooms |-> rooms, heap |-> heap, got |-> got, ret |-> 0, cleanup |-> NoCleanup,
     held |-> held]

\* InMemoryRideBroker._lock, as a member of held
RegistryLock == 0

\* an `async with lock:` block that keeps the lock when it is left
MutAsyncWithNoRelease(B, lock) == [B EXCEPT !.held = @ \cup {lock}]

\* `async with lock:` around a block that awaits no send, receive or sleep
\* (every such block of realtime.py): the lock is taken on entry and
\* released when the block is left.
AsyncWith(B, lock) == [B EXCEPT !.held = (@ \cup {lock}) \ {lock}]

Alloc(hp) ==
    CHOOSE i \in RoomRefs :
        /\ hp[i].ride_id = None
        /\ \A j \in RoomRefs : j < i => hp[j].ride_id # None

\* get_room that builds a RideRoom on every call
MutGetRoomRefAlwaysNew(B, ride_id) == Alloc(B.heap)

\* InMemoryRideBroker.get_room: the room it returns
GetRoomRef(B, ride_id) ==
    IF B.rooms[ride_id] # 0 THEN B.rooms[ride_id] ELSE Alloc(B.heap)

\* InMemoryRideBroker.get_room: its effect on the registry
GetRoom(B, ride_id) ==
    LET ref == GetRoomRef(B, ride_id) IN
    [rooms |-> [B.rooms EXCEPT ![ride_id] = ref],
     heap |-> [B.heap EXCEPT ![ref] = IF ref = B.rooms[ride_id] THEN @ ELSE NewRoom(ride_id)],
     got |-> [B.got EXCEPT ![ride_id] = ref],
     ret |-> ref,
     cleanup |-> B.cleanup,
     held |-> AsyncWith(B, RegistryLock).held]

\* InMemoryRideBroker.cleanup_if_empty
\* cleanup_if_empty that does not look at the admin count
MutCleanupIgnoresAdmins(B, ride_id) ==
    IF B.rooms[ride_id] = 0
    THEN [B EXCEPT !.cleanup = [NoCleanup EXCEPT !.called = TRUE, !.ride_id = ride_id]]
    ELSE LET snap == Snapshot(B.heap[B.rooms[ride_id]])
             seen == [called |-> TRUE, ride_id |-> ride_id, had_entry |-> TRUE,
                      rider_count |-> snap.rider_count, driver_count |-> snap.driver_count,
                      admin_count |-> snap.admin_count, removed |-> FALSE]
         IN  IF snap.rider_count = 0 /\ snap.driver_count = 0
             THEN [B EXCEPT !.rooms[ride_id] = 0, !.got[ride_id] = 0,
                            !.cleanup = [seen EXCEPT !.removed = TRUE]]
             ELSE [B EXCEPT !.cleanup = seen]

\* InMemoryRideBroker.cleanup_if_empty (cleanup records the snapshot it took
\* and whether it popped the entry)
CleanupIfEmpty(B0, ride_id) ==
    LET B == IF B0.rooms[ride_id] = 0 THEN AsyncWith(B0, RegistryLock)
             ELSE AsyncWith(AsyncWith(B0, B0.rooms[ride_id]), RegistryLock) IN
    IF B.rooms[ride_id] = 0
    THEN [B EXCEPT !.cleanup = [NoCleanup EXCEPT !.called = TRUE, !.ride_id = ride_id]]
    ELSE LET snap == Snapshot(B.heap[B.rooms[ride_id]])
             seen == [called |-> TRUE, ride_id |-> ride_id, had_entry |-> TRUE,
                      rider_count |-> snap.rider_count, driver_count |-> snap.driver_count,
                      admin_count |-> snap.admin_count, removed |-> FALSE]
         IN  IF snap.rider_count = 0 /\ snap.driver_count = 0 /\ snap.admin_count = 0
             THEN [B EXCEPT !.rooms[ride_id] = 0, !.got[ride_id] = 0,
                            !.cleanup = [seen EXCEPT !.removed = TRUE]]
             ELSE [B EXCEPT !.cleanup = seen]

\* room.add / room.remove on the object a caller holds
AddConn(B, ref, user_id, conn, channel) ==
    [AsyncWith(B, ref) EXCEPT
        !.heap[ref] = [RoomAdd(@, user_id, conn, channel) EXCEPT !.adds[channel] = @ + 1]]
RemoveUser(B, ref, user_id) ==
    [AsyncWith(B, ref) EXCEPT !.heap[ref] = RoomRemove(@, user_id)]

\* the channels whose mapping of the room has user_id as a key
ChannelsOf(room, user_id) ==
    {ch \in Channels :
        \/ ch = "rider" /\ DictHas(room.riders, user_id)
        \/ ch = "driver" /\ DictHas(room.drivers, user_id)
        \/ ch = "admin" /\ DictHas(room.admins, user_id)}

\* one more remove call is recorded for each channel of chs
CountRemove(B, ref, chs) ==
    [B EXCEPT !.heap[ref].removes = [ch \in Channels |-> IF ch \in chs THEN @[ch] + 1 ELSE @[ch]]]

\* An object nothing refers to any more is collected.
Collect(hp, reg, ss, bc) ==
    LET live == {reg[r] : r \in RideIds} \cup {ss[s].room : s \in Sessions} \cup {bc.room}
    IN  [i \in RoomRefs |-> IF i \in live THEN hp[i] ELSE FreeRoom]

Commit(B, ss, bc) ==
    /\ rooms' = B.rooms
    /\ heap' = Collect(B.heap, B.rooms, ss, bc)
    /\ got' = B.got
    /\ cleanup' = B.cleanup
    /\ held' = B.held
    /\ sess' = ss
    /\ bcast' = bc
    /\ UNCHANGED task

\* ---------------------------------------------------------- sessions
Frame(type, body) == [type |-> type, body |-> body]

IdleSession ==
    [pc |-> "idle", token |-> None, channel |-> None, ride_id |-> None,
     user |-> None, room |-> 0, client_state |-> "CONNECTING",
     stop |-> FALSE, hb |-> "none", sent |-> <<>>, pending |-> Frame(None, [x |-> 0]),
     close_code |-> 0, close_reason |-> None, last |-> None,
     registered |-> FALSE, teardowns |-> 0, fails |-> 0]

IdleBroadcast ==
    [pc |-> "idle", ride_id |-> None, room |-> 0, conns |-> <<>>, i |-> 0,
     send_timeouts |-> [u \in Users |-> 0], stale |-> <<>>]

\* The tasks that call the broker and the rooms, and the user each acts for.
Tasks == 1..NTasks
TaskUser(t) == IF t = 1 THEN "R1" ELSE "D1"

\* no call in progress; room is the RideRoom the task got from get_room
IdleTask ==
    [pc |-> "idle", op |-> None, ride_id |-> None, channel |-> None, room |-> 0,
     locks |-> <<>>]

WsInit(budget) ==
    /\ rooms = [r \in RideIds |-> 0]
    /\ heap = [i \in RoomRefs |-> FreeRoom]
    /\ sess = [s \in Sessions |-> IdleSession]
    /\ bcast = IdleBroadcast
    /\ envLeft = budget
    /\ got = [r \in RideIds |-> 0]
    /\ cleanup = NoCleanup
    /\ held = {}
    /\ task = [t \in Tasks |-> IdleTask]

\* _close_code
CloseCode(code) == IF 1000 <= code /\ code <= 4999 THEN code ELSE WS_POLICY_VIOLATION

\* authenticate_ws_user that takes a missing token for the first driver
MutAuthenticateDefaultsUser(token) ==
    IF token \in Users THEN token
    ELSE IF token = "missing" THEN "D1"
    ELSE None

\* authenticate_ws_user: the user of the token, None when it raises 401
Authenticate(token) == IF token \in Users THEN token ELSE None

\* authenticate_ws_user: the detail of the 401 it raises
AuthDetail(token) ==
    IF token = "missing" THEN "Missing authentication token"
    ELSE "Invalid or expired token."

\* authorize_ws_ride_access without the ownership checks
MutAuthorizeRoleOnly(user, ride, channel) ==
    IF channel = "driver"
    THEN IF UserRole(user) # "driver" THEN "Driver role required." ELSE "ok"
    ELSE IF channel = "rider"
    THEN IF UserRole(user) # "rider" THEN "Rider role required." ELSE "ok"
    ELSE IF channel = "admin"
    THEN IF UserRole(user) # "driver" THEN "Admin channel not allowed." ELSE "ok"
    ELSE "Invalid channel."

\* authorize_ws_ride_access: "ok" when it returns, else the detail of its 403
Authorize(user, ride, channel) ==
    IF channel = "driver"
    THEN IF UserRole(user) # "driver" THEN "Driver role required."
         ELSE IF ride.driver_id = None \/ ride.driver_id # user
              THEN "Not the assigned driver for this ride."
         ELSE "ok"
    ELSE IF channel = "rider"
    THEN IF UserRole(user) # "rider" THEN "Rider role required."
         ELSE IF ride.rider_id # user THEN "Not the rider for this ride."
         ELSE "ok"
    ELSE IF channel = "admin"
    THEN IF UserRole(user) # "driver" THEN "Admin channel not allowed." ELSE "ok"
    ELSE "Invalid channel."

\* What a send on a socket can do: complete, time out or find the socket
\* unusable (TimeoutError, RuntimeError), or raise another exception.
SendOutcomes == {"ok", "false", "raise"}

\* _safe_send_json on the Connection of session rec, the network answering
\* outcome.  A socket whose peer is gone, or that the server has closed,
\* is refused without a send.
SafeSendJson(rec, outcome) ==
    IF rec.client_state # "CONNECTED" THEN "false"
    ELSE IF rec.pc = "closed" THEN "false"
    ELSE outcome

\* the handler's except HTTPException branch (lines 426-434)
CloseHttp(rec, detail, sendOk) ==
    [rec EXCEPT !.pc = "closed",
                !.sent = IF sendOk THEN Append(@, Frame("error", [message |-> detail])) ELSE @,
                !.close_code = CloseCode(WS_POLICY_VIOLATION),
                !.close_reason = detail]

\* a hydration message that never carries the cached location
MutConnectedNoLocation(rec, ride, room) ==
    Frame("connected",
          [ride_id |-> rec.ride_id, channel |-> rec.channel, user_id |-> rec.user,
           role |-> UserRole(rec.user), ride_status |-> ride.status,
           driver_id |-> ride.driver_id, rider_id |-> ride.rider_id,
           last_location |-> NoLocation])

\* the hydration message built at lines 346-359
Connected(rec, ride, room) ==
    Frame("connected",
          [ride_id |-> rec.ride_id, channel |-> rec.channel, user_id |-> rec.user,
           role |-> UserRole(rec.user), ride_status |-> ride.status,
           driver_id |-> ride.driver_id, rider_id |-> ride.rider_id,
           last_location |-> room.last_location])

\* run_ws_session, lines 323-343: accept, authenticate, load the ride,
\* authorize, build the Connection and register it.
Connect(s, token, ride_id, channel, sendOk) ==
    /\ sess[s].pc = "idle"
    /\ \A q \in Sessions : q < s => sess[q].pc # "idle"
    /\ LET rec == [sess[s] EXCEPT !.token = token, !.ride_id = ride_id,
                                  !.channel = channel, !.client_state = "CONNECTED"]
           user == Authenticate(token)
           ride == rides[ride_id]
       IN  IF user = None
           THEN Commit(Broker, [sess EXCEPT ![s] = CloseHttp(rec, AuthDetail(token), sendOk)],
                       bcast)
           ELSE IF ride = NoRide
           THEN /\ sendOk
                /\ Commit(Broker,
                          [sess EXCEPT ![s] = [rec EXCEPT !.pc = "closed", !.user = user,
                                  !.close_code = CloseCode(WS_POLICY_VIOLATION),
                                  !.close_reason = "Ride not found."]],
                          bcast)
           ELSE IF Authorize(user, ride, channel) # "ok"
           THEN Commit(Broker,
                       [sess EXCEPT ![s] = CloseHttp([rec EXCEPT !.user = user],
                                                     Authorize(user, ride, channel), sendOk)],
                       bcast)
           ELSE LET B1 == GetRoom(Broker, ride_id)
                    B2 == AddConn(B1, B1.ret, user, s, channel)
                    rec2 == [rec EXCEPT !.user = user, !.room = B1.ret,
                                        !.registered = TRUE, !.pc = "hydrating"]
                IN  /\ sendOk
                    /\ Commit(B2,
                              [sess EXCEPT ![s] = [rec2 EXCEPT !.pending =
                                      Connected(rec2, ride, B2.heap[B1.ret])]],
                              bcast)
    /\ UNCHANGED <<storeVars, vt, envLeft>>

\* the finally block of lines 420-424, on the session
TeardownSession(rec) ==
    [rec EXCEPT !.stop = TRUE,
                !.hb = IF @ = "running" THEN "cancelled" ELSE @,
                !.teardowns = @ + 1]

\* the finally block of lines 420-424, on the broker
TeardownBroker(B, rec) ==
    CleanupIfEmpty(CountRemove(RemoveUser(B, rec.room, rec.user), rec.room, {rec.channel}),
                   rec.ride_id)

\* the except Exception branch of lines 435-438
CloseFault(rec) ==
    [rec EXCEPT !.pc = "closed", !.room = 0, !.pending = IdleSession.pending,
                !.close_code = IF rec.client_state = "CONNECTED"
                               THEN CloseCode(WS_INTERNAL_ERROR) ELSE @,
                !.close_reason = IF rec.client_state = "CONNECTED"
                                 THEN "Internal server error" ELSE @]

\* run_ws_session returns without a close of its own
Return(rec) == [rec EXCEPT !.pc = "closed", !.room = 0]

\* run_ws_session with the heartbeat started, and its first ping sent, before
\* the hydration message
MutHydratePingsFirst(s, outcome) ==
    /\ sess[s].pc = "hydrating"
    /\ Commit(Broker,
              [sess EXCEPT ![s] =
                  [@ EXCEPT !.sent = <<Frame("ping", [x |-> 0]), sess[s].pending>>,
                            !.pending = IdleSession.pending,
                            !.stop = FALSE, !.hb = "running", !.pc = "active"]],
              bcast)
    /\ UNCHANGED <<storeVars, vt, envLeft>>

\* run_ws_session, lines 346-365: send the hydration message, start the
\* heartbeat and enter the loop.
Hydrate(s, outcome) ==
    /\ sess[s].pc = "hydrating"
    /\ LET rec == sess[s]
           res == SafeSendJson(rec, outcome)
       IN  IF res = "raise"
           THEN Commit(Broker, [sess EXCEPT ![s] = CloseFault(rec)], bcast)
           ELSE Commit(Broker,
                       [sess EXCEPT ![s] =
                           [rec EXCEPT !.sent = IF res = "ok" THEN Append(@, rec.pending) ELSE @,
                                       !.pending = IdleSession.pending,
                                       !.stop = FALSE, !.hb = "running", !.pc = "active"]],
                       bcast)
    /\ UNCHANGED <<storeVars, vt, envLeft>>

\* One turn of the receive loop is over: how is "continue", "break" (the
\* loop ends) or "fault" (an exception leaves it).  The loop condition of
\* line 365 is read before the next receive.
LoopTurn(s, rec, B, how) ==
    LET ends == how # "continue" \/ rec.stop \/ rec.client_state # "CONNECTED"
        done == TeardownSession(rec)
    IN  /\ Commit(IF ends THEN TeardownBroker(B, rec) ELSE B,
                  [sess EXCEPT ![s] = IF ~ends THEN rec
                                      ELSE IF how = "fault" THEN CloseFault(done)
                                      ELSE Return(done)],
                  bcast)
        /\ envLeft' = envLeft - 1
        /\ UNCHANGED <<storeVars, vt>>

Receiving(s) == sess[s].pc = "active" /\ envLeft > 0

\* a send_json that sends nothing
MutReplyNothing(rec, frame, sendOk) == rec

\* a send_json that sends the frame twice
MutReplyTwice(rec, frame, sendOk) ==
    IF sendOk THEN [rec EXCEPT !.sent = Append(Append(@, frame), frame)] ELSE rec

\* websocket.send_json in the loop: the frame is sent, or the send raises
Reply(rec, frame, sendOk) == IF sendOk THEN [rec EXCEPT !.sent = Append(@, frame)] ELSE rec

\* receive_json raises WebSocketDisconnect (lines 368-369)
RecvDisconnect(s) ==
    /\ Receiving(s)
    /\ LoopTurn(s, [sess[s] EXCEPT !.last = "disconnect", !.client_state = "DISCONNECTED"],
                Broker, "break")

\* receive_json raises another exception (lines 370-373)
RecvInvalidJson(s, sendOk) ==
    /\ Receiving(s)
    /\ LoopTurn(s,
                Reply([sess[s] EXCEPT !.last = "invalid_json"],
                      Frame("error", [message |-> "Invalid message format; expected JSON."]),
                      sendOk),
                Broker, IF sendOk THEN "continue" ELSE "fault")

\* a JSON value that is no object: msg.get raises AttributeError (line 375)
RecvNonObject(s) ==
    /\ Receiving(s)
    /\ LoopTurn(s, [sess[s] EXCEPT !.last = "non_object"], Broker, "fault")

\* a pong branch that answers with an ack frame
MutRecvPongAcks(s) ==
    /\ Receiving(s)
    /\ LoopTurn(s, Reply([sess[s] EXCEPT !.last = "pong"],
                          Frame("ack", [received_type |-> "pong"]), TRUE),
                Broker, "continue")

\* lines 376-377
RecvPong(s) ==
    /\ Receiving(s)
    /\ LoopTurn(s, [sess[s] EXCEPT !.last = "pong"], Broker, "continue")

\* JSON values of lat and lng: absent, the number 1, the strings "2" and "x"
JsonValues == {None, "1", "s2", "sx"}

\* float(v) raises ValueError
FloatRaises(v) == v = "sx"

\* float(v)
Float(v) == IF v = "1" THEN 1 ELSE 2

\* lines 379-416 for a driver-channel location message that has lat and lng
\* and whose float() conversions succeed: the location is cached, then the
\* import of add_ride_event from routers.rides raises ImportError (no such
\* name is defined there), so neither the event nor the broadcast happens.
HandleLocation(s, rec, lat, lng) ==
    LET loc == [driver_id |-> rec.user, lat |-> Float(lat), lng |-> Float(lng)]
    IN  LoopTurn(s, [rec EXCEPT !.last = "location_ok"],
                 [AsyncWith(Broker, rec.room) EXCEPT !.heap[rec.room].last_location = loc],
                 "fault")

\* the dispatch of lines 375-419 without the channel test of line 379
MutRecvMessageAnyChannel(s, mtype, lat, lng, sendOk) ==
    /\ Receiving(s)
    /\ mtype \notin {"location", "driver_location"} => lat = None /\ lng = None
    /\ sess[s].channel # "driver" => lat = lng
    /\ LET rec == sess[s] IN
       IF mtype \in {"location", "driver_location"}
       THEN IF lat = None \/ lng = None
            THEN LoopTurn(s,
                          Reply([rec EXCEPT !.last = "location_missing"],
                                Frame("error", [message |-> "Missing lat/lng."]), sendOk),
                          Broker, IF sendOk THEN "continue" ELSE "fault")
            ELSE IF FloatRaises(lat) \/ FloatRaises(lng)
            THEN sendOk /\ LoopTurn(s, [rec EXCEPT !.last = "location_nan"], Broker, "fault")
            ELSE sendOk /\ HandleLocation(s, rec, lat, lng)
       ELSE LoopTurn(s,
                     Reply([rec EXCEPT !.last = mtype],
                           Frame("ack", [received_type |-> mtype]), sendOk),
                     Broker, IF sendOk THEN "continue" ELSE "fault")

\* lines 375-419 for a message with a type other than pong; off the driver
\* channel line 379 fails before lat and lng are read, so one payload value
\* of each kind (absent, numeric, non-numeric) stands for the pair
RecvMessage(s, mtype, lat, lng, sendOk) ==
    /\ Receiving(s)
    /\ mtype \notin {"location", "driver_location"} => lat = None /\ lng = None
    /\ sess[s].channel # "driver" => lat = lng
    /\ LET rec == sess[s] IN
       IF rec.channel = "driver" /\ mtype \in {"location", "driver_location"}
       THEN IF lat = None \/ lng = None
            THEN LoopTurn(s,
                          Reply([rec EXCEPT !.last = "location_missing"],
                                Frame("error", [message |-> "Missing lat/lng."]), sendOk),
                          Broker, IF sendOk THEN "continue" ELSE "fault")
            ELSE IF FloatRaises(lat) \/ FloatRaises(lng)
            THEN sendOk /\ LoopTurn(s, [rec EXCEPT !.last = "location_nan"], Broker, "fault")
            ELSE sendOk /\ HandleLocation(s, rec, lat, lng)
       ELSE LoopTurn(s,
                     Reply([rec EXCEPT !.last = mtype],
                           Frame("ack", [received_type |-> mtype]), sendOk),
                     Broker, IF sendOk THEN "continue" ELSE "fault")

\* _heartbeat_sender: one tick of PING_INTERVAL_SECONDS and the ping after it
HeartbeatPing(s, outcome) ==
    /\ sess[s].hb = "running"
    /\ ~sess[s].stop
    /\ envLeft > 0
    /\ LET rec == sess[s]
           res == SafeSendJson(rec, outcome)
       IN  Commit(Broker,
                  [sess EXCEPT ![s] =
                      IF res = "ok" THEN [rec EXCEPT !.sent = Append(@, Frame("ping", [x |-> 0]))]
                      ELSE IF res = "false" THEN [rec EXCEPT !.stop = TRUE, !.hb = "exited"]
                      ELSE [rec EXCEPT !.hb = "crashed"]],
                  bcast)
    /\ envLeft' = envLeft - 1
    /\ UNCHANGED <<storeVars, vt>>

\* --------------------------------------------------------- broadcast
\* lines 153-160: the copy of the connection list
CopyConns(room, to_riders, to_drivers, to_admins) ==
    (IF to_riders THEN DictValues(room.riders) ELSE <<>>)
        \o (IF to_drivers THEN DictValues(room.drivers) ELSE <<>>)
        \o (IF to_admins THEN DictValues(room.admins) ELSE <<>>)

RECURSIVE RemoveAll(_, _, _)
\* lines 173-174
RemoveAll(B, ref, stale) ==
    IF stale = <<>> THEN B
    ELSE RemoveAll(CountRemove(RemoveUser(B, ref, Head(stale)), ref,
                               ChannelsOf(B.heap[ref], Head(stale))),
                   ref, Tail(stale))

\* lines 173-175: evict the stale users, then cleanup_if_empty
FinishBroadcast(B, bc) == CleanupIfEmpty(RemoveAll(B, bc.room, bc.stale), bc.ride_id)

\* the payload of a broadcast made by a caller outside the session runner
StatusFrame(ride_id) == Frame("ride_status", [ride_id |-> ride_id])

\* broadcast_to_ride, lines 151-164 (and 173-175 when nobody is subscribed)
BroadcastStart(ride_id, to_riders, to_drivers, to_admins) ==
    /\ bcast.pc = "idle"
    /\ envLeft > 0
    /\ LET B1 == AsyncWith(GetRoom(Broker, ride_id), GetRoom(Broker, ride_id).ret)
           conns == CopyConns(B1.heap[B1.ret], to_riders, to_drivers, to_admins)
           bc == [IdleBroadcast EXCEPT !.pc = "sending", !.ride_id = ride_id,
                                       !.room = B1.ret, !.conns = conns, !.i = 1]
       IN  IF conns = <<>>
           THEN Commit(FinishBroadcast(B1, bc), sess, IdleBroadcast)
           ELSE Commit(B1, sess, bc)
    /\ envLeft' = envLeft - 1
    /\ UNCHANGED <<storeVars, vt>>

\* the failure counter of lines 168-171
CountTimeout(bc, user_id) ==
    LET n == bc.send_timeouts[user_id] + 1 IN
    [bc EXCEPT !.send_timeouts[user_id] = n,
               !.stale = IF n >= MAX_CONSECUTIVE_SEND_TIMEOUTS THEN Append(@, user_id) ELSE @]

\* broadcast_to_ride, lines 166-171 for one connection (and 173-175 after
\* the last one); an exception of the send leaves broadcast_to_ride at once.
BroadcastSend(outcome) ==
    /\ bcast.pc = "sending"
    /\ LET c == bcast.conns[bcast.i]
           res == SafeSendJson(sess[c], outcome)
           ss == [sess EXCEPT ![c].sent = IF res = "ok"
                                          THEN Append(@, StatusFrame(bcast.ride_id)) ELSE @,
                              ![c].fails = IF res = "ok" THEN 0
                                           ELSE IF @ < MAX_CONSECUTIVE_SEND_TIMEOUTS
                                           THEN @ + 1 ELSE @]
           bc == IF res = "false" THEN CountTimeout(bcast, sess[c].user) ELSE bcast
       IN  IF res = "raise" THEN Commit(Broker, ss, IdleBroadcast)
           ELSE IF bcast.i = Len(bcast.conns)
           THEN Commit(FinishBroadcast(Broker, bc), ss, IdleBroadcast)
           ELSE Commit(Broker, ss, [bc EXCEPT !.i = @ + 1])
    /\ UNCHANGED <<storeVars, vt, envLeft>>

\* A later WebSocket connection: the handler of session s has returned, no
\* room and no broadcast holds its Connection, and the routes of
\* routers/ws.py call run_ws_session for a new socket.
NewConnection(s) ==
    /\ sess[s].pc = "closed"
    /\ \A i \in RoomRefs : s \notin RoomConns(heap[i])
    /\ \A i \in DOMAIN bcast.conns : bcast.conns[i] # s
    /\ envLeft > 0
    /\ sess' = [sess EXCEPT ![s] = IdleSession]
    /\ envLeft' = envLeft - 1
    /\ UNCHANGED <<storeVars, vt, rooms, heap, bcast, got, cleanup, held, task>>

\* ------------------------------------------------- calls, lock by lock
\* The methods of RideRoom and InMemoryRideBroker with every `async with`
\* as a step of its own: a task that finds the lock taken waits, and other
\* tasks run between one acquisition and the next.
RoomOps == {"add", "remove", "snapshot", "set_location", "copy"}
LockOps == {"get_room", "cleanup_if_empty"} \cup RoomOps

NoLock == 0 - 1

\* add that looks its room up in the broker while it holds the room lock
MutNextLockAddAsksBroker(tk, reg) ==
    IF tk.op \in {"get_room", "cleanup_if_empty"}
    THEN IF tk.locks = <<>> THEN RegistryLock
         ELSE IF tk.op = "cleanup_if_empty" /\ Len(tk.locks) = 1 /\ reg[tk.ride_id] # 0
         THEN reg[tk.ride_id]
         ELSE NoLock
    ELSE IF tk.locks = <<>> THEN tk.room
    ELSE IF tk.op = "add" /\ Len(tk.locks) = 1 THEN RegistryLock
    ELSE NoLock

\* The lock the call of tk enters next, NoLock when it holds all it takes:
\* get_room takes broker._lock (line 96); cleanup_if_empty takes broker._lock
\* (line 104) and, when the ride has a room, that room's lock inside snapshot
\* (lines 108, 78); add, remove, snapshot, the location write (line 395) and
\* the copy of broadcast_to_ride (line 153) take the lock of their room.
NextLock(tk, reg) ==
    IF tk.op \in {"get_room", "cleanup_if_empty"}
    THEN IF tk.locks = <<>> THEN RegistryLock
         ELSE IF tk.op = "cleanup_if_empty" /\ Len(tk.locks) = 1 /\ reg[tk.ride_id] # 0
         THEN reg[tk.ride_id]
         ELSE NoLock
    ELSE IF tk.locks = <<>> THEN tk.room
    ELSE NoLock

\* An object neither the registry nor a task refers to is collected.
TaskCollect(hp, reg, tk) ==
    LET live == {reg[r] : r \in RideIds} \cup {tk[t].room : t \in Tasks}
    IN  [i \in RoomRefs |-> IF i \in live THEN hp[i] ELSE FreeRoom]

\* a task starts a call; the room methods are called on the room it holds
CallOp(t, op, ride_id, channel) ==
    /\ task[t].pc = "idle"
    /\ envLeft > 0
    /\ op \in RoomOps => task[t].room # 0 /\ heap[task[t].room].ride_id = ride_id
    /\ op # "add" => channel = "rider"
    /\ task' = [task EXCEPT ![t] = [@ EXCEPT !.pc = "running", !.op = op,
                                             !.ride_id = ride_id, !.channel = channel]]
    /\ envLeft' = envLeft - 1
    /\ UNCHANGED <<storeVars, vt, rooms, heap, sess, bcast, got, cleanup, held>>

\* `async with lock:` is entered: asyncio.Lock.acquire returns once no task
\* holds the lock
AcquireLock(t) ==
    /\ task[t].pc = "running"
    /\ LET l == NextLock(task[t], rooms)
       IN  /\ l # NoLock
           /\ l \notin held
           /\ held' = held \cup {l}
           /\ task' = [task EXCEPT ![t].locks = Append(@, l)]
    /\ UNCHANGED <<storeVars, vt, rooms, heap, sess, bcast, envLeft, got, cleanup>>

\* the body of the call runs under its locks, the locks are released and
\* the call returns
ReturnOp(t) ==
    /\ task[t].pc = "running"
    /\ NextLock(task[t], rooms) = NoLock
    /\ LET tk == task[t]
           B == IF tk.op = "get_room" THEN GetRoom(Broker, tk.ride_id)
                ELSE IF tk.op = "cleanup_if_empty" THEN CleanupIfEmpty(Broker, tk.ride_id)
                ELSE IF tk.op = "add"
                THEN [Broker EXCEPT !.heap[tk.room] = RoomAdd(@, TaskUser(t), t, tk.channel)]
                ELSE IF tk.op = "remove"
                THEN [Broker EXCEPT !.heap[tk.room] = RoomRemove(@, TaskUser(t))]
                ELSE IF tk.op = "set_location"
                THEN [Broker EXCEPT !.heap[tk.room].last_location =
                                        [driver_id |-> TaskUser(t), lat |-> 1, lng |-> 1]]
                ELSE Broker
           tks == [task EXCEPT ![t] = [IdleTask EXCEPT !.room = IF tk.op = "get_room"
                                                                 THEN B.ret ELSE tk.room]]
       IN  /\ rooms' = B.rooms
           /\ heap' = TaskCollect(B.heap, B.rooms, tks)
           /\ got' = B.got
           /\ cleanup' = B.cleanup
           /\ held' = held \ {tk.locks[i] : i \in DOMAIN tk.locks}
           /\ task' = tks
    /\ UNCHANGED <<storeVars, vt, sess, bcast, envLeft>>

\* ------------------------------------------------------ specifications
vars == <<storeVars, vt, wsVars>>

Rest(A) == A /\ UNCHANGED <<vt, wsVars, txn>>

\* --------------------------------- direct calls of _validate_transition
ValidateCall ==
    /\ vt.result = None
    /\ vt' = [vt EXCEPT !.result = ValidateTransition(vt.current, vt.new)]
    /\ UNCHANGED <<storeVars, wsVars>>

ValidateNextInput ==
    /\ vt.result # None
    /\ vt.calls < MaxCalls
    /\ \E c \in RideStatus, n \in RideStatus :
         vt' = [current |-> c, new |-> n, result |-> None, calls |-> vt.calls + 1]
    /\ UNCHANGED <<storeVars, wsVars>>

\* the type field of the messages the peers send, besides pong
MessageTypes == {"location", "hello"}

\* to_riders, to_drivers, to_admins of the broadcast calls: the defaults, and
\* riders only
BroadcastFlags == {<<TRUE, TRUE, TRUE>>, <<TRUE, FALSE, FALSE>>}

\* the channel of the three routes of routers/ws.py
ConnectChannels == Channels

\* Stored states the session runner finds: no ride yet, the ride created
\* by R1, and the ride after D1 assigned themselves (SpecStore reaches each).
RideCreated == AddEvent(<<>>, "ride1", "ride_created", [rider_id |-> "R1"])
RideAssigned == AddEvent(RideCreated, "ride1", "driver_assigned", [driver_id |-> "D1"])

StoreEmpty ==
    /\ StoreInit(0, {"available"})

StoreRequested ==
    /\ rides = [r \in RideIds |->
                  [rider_id |-> "R1", driver_id |-> None, status |-> "requested"]]
    /\ events = RideCreated
    /\ drivers = [d \in Drivers |-> "available"]
    /\ reqLeft = 0
    /\ reqNo = 1
    /\ lastReq = Request("create", "R1", "ride1", None, HTTP_201_CREATED)
    /\ txn = [u \in Users |-> NoTxn]

StoreAssigned ==
    /\ rides = [r \in RideIds |->
                  [rider_id |-> "R1", driver_id |-> "D1", status |-> "assigned"]]
    /\ events = RideAssigned
    /\ drivers = [d \in Drivers |-> "available"]
    /\ reqLeft = 0
    /\ reqNo = 2
    /\ lastReq = Request("assign", "D1", "ride1", "D1", HTTP_200_OK)
    /\ txn = [u \in Users |-> NoTxn]

Init ==
    /\ StoreEmpty \/ StoreRequested \/ StoreAssigned
    /\ vt = VtInit
    /\ WsInit(MaxEvents)

Next ==
    \/ \E s \in Sessions, tk \in Tokens, r \in RideIds, ch \in ConnectChannels, ok \in BOOLEAN :
           Connect(s, tk, r, ch, ok)
    \/ \E s \in Sessions, o \in SendOutcomes : Hydrate(s, o)
    \/ \E s \in Sessions : RecvDisconnect(s)
    \/ \E s \in Sessions, ok \in BOOLEAN : RecvInvalidJson(s, ok)
    \/ \E s \in Sessions : RecvNonObject(s)
    \/ \E s \in Sessions : RecvPong(s)
    \/ \E s \in Sessions, m \in MessageTypes, lat \in JsonValues, lng \in JsonValues,
          ok \in BOOLEAN :
           RecvMessage(s, m, lat, lng, ok)
    \/ \E s \in Sessions, o \in SendOutcomes : HeartbeatPing(s, o)
    \/ \E r \in RideIds, f \in BroadcastFlags : BroadcastStart(r, f[1], f[2], f[3])
    \/ \E o \in SendOutcomes : BroadcastSend(o)

Spec == Init /\ [][Next]_vars

\* Broadcasts to one subscriber: the eviction policy of broadcast_to_ride.
InitEvict ==
    /\ StoreAssigned
    /\ vt = VtInit
    /\ WsInit(MaxBroadcasts)

NextEvict ==
    \/ \E tk \in Tokens, r \in RideIds, ch \in ConnectChannels, ok \in BOOLEAN :
           Connect(1, tk, r, ch, ok)
    \/ \E o \in SendOutcomes : Hydrate(1, o)
    \/ \E r \in RideIds, f \in BroadcastFlags : BroadcastStart(r, f[1], f[2], f[3])
    \/ \E o \in SendOutcomes : BroadcastSend(o)

SpecEvict == InitEvict /\ [][NextEvict]_vars

\* One session and its heartbeat.  The server's own steps are fair: the
\* event loop resumes the handler after room.add and wakes the heartbeat task
\* when its sleep is over.  The peer's frames and disconnects are not: the
\* peer may stay silent.
NextLive ==
    \/ \E tk \in Tokens, r \in RideIds, ch \in ConnectChannels, ok \in BOOLEAN :
           Connect(1, tk, r, ch, ok)
    \/ \E o \in SendOutcomes : Hydrate(1, o)
    \/ RecvDisconnect(1)
    \/ \E ok \in BOOLEAN : RecvInvalidJson(1, ok)
    \/ RecvNonObject(1)
    \/ RecvPong(1)
    \/ \E m \in MessageTypes, lat \in JsonValues, lng \in JsonValues, ok \in BOOLEAN :
           RecvMessage(1, m, lat, lng, ok)
    \/ \E o \in SendOutcomes : HeartbeatPing(1, o)

InitLive ==
    /\ StoreAssigned
    /\ vt = VtInit
    /\ WsInit(MaxEvents)

SpecLive ==
    /\ InitLive
    /\ [][NextLive]_vars
    /\ WF_vars(\E o \in SendOutcomes : Hydrate(1, o))
    /\ WF_vars(\E o \in SendOutcomes : HeartbeatPing(1, o))

\* The REST handlers next to one WebSocket session.  The handlers of
\* routers/rides.py call nothing of realtime.py, so their steps leave the
\* broker and the sessions alone.  The server's own step (the hydration send)
\* is fair; requests and peer frames are the environment's.
InitRide ==
    /\ StoreInit(MaxRideRequests, {"available"})
    /\ vt = VtInit
    /\ WsInit(MaxEvents)

NextRide ==
    \/ \E u \in Users : Rest(create_ride(u))
    \/ \E u \in Users, r \in RideIds, d \in Drivers : Rest(assign_driver(u, r, d))
    \/ \E u \in Users, r \in RideIds, st \in RideStatus : Rest(update_ride_status(u, r, st))
    \/ \E tk \in Users, r \in RideIds, ch \in ConnectChannels : Connect(1, tk, r, ch, TRUE)
    \/ \E o \in SendOutcomes : Hydrate(1, o)
    \/ RecvDisconnect(1)
    \/ RecvPong(1)

SpecRide ==
    /\ InitRide
    /\ [][NextRide]_vars
    /\ WF_vars(\E o \in SendOutcomes : Hydrate(1, o))

\* Assign requests of several drivers in flight at once.
InitRace ==
    /\ StoreInit(MaxRideRequests, {"available"})
    /\ vt = VtInit
    /\ WsInit(0)

NextRace ==
    \/ \E u \in Users : Rest(create_ride(u))
    \/ \E u \in Users, r \in RideIds, d \in Drivers : assign_driver_read(u, r, d)
    \/ \E u \in Users : assign_driver_commit(u)
    \/ \E u \in Users, r \in RideIds, st \in RideStatus : Rest(update_ride_status(u, r, st))

SpecRace == InitRace /\ [][NextRace]_vars

InitStore ==
    /\ StoreInit(MaxRequests, {None, "available"})
    /\ vt = VtInit
    /\ WsInit(0)

NextStore ==
    \/ \E u \in Users : Rest(create_ride(u))
    \/ \E u \in Users, r \in RideIds, d \in Drivers : Rest(assign_driver(u, r, d))
    \/ \E u \in Users, r \in RideIds, st \in RideStatus : Rest(update_ride_status(u, r, st))
    \/ \E u \in Users, a \in {"available", "unavailable"} : Rest(update_my_availability(u, a))

SpecStore == InitStore /\ [][NextStore]_vars

InitVT ==
    /\ StoreInit(0, {None})
    /\ vt \in [current : RideStatus, new : RideStatus, result : {None}, calls : {0}]
    /\ WsInit(0)

NextVT == ValidateCall \/ ValidateNextInput

SpecVT == InitVT /\ [][NextVT]_vars

\* Sessions that join a room after others have left it: a connection slot
\* whose handler has returned serves the next socket.  The sessions and their
\* heartbeats are the only senders: no code of the repository other than the
\* location branch of the loop calls broadcast_to_ride.
InitJoin ==
    /\ StoreRequested \/ StoreAssigned
    /\ vt = VtInit
    /\ WsInit(MaxEvents)

NextJoin ==
    \/ \E s \in Sessions, tk \in Users, r \in RideIds, ch \in ConnectChannels :
           Connect(s, tk, r, ch, TRUE)
    \/ \E s \in Sessions, o \in SendOutcomes : Hydrate(s, o)
    \/ \E s \in Sessions : RecvDisconnect(s)
    \/ \E s \in Sessions, m \in MessageTypes, lat \in JsonValues, lng \in JsonValues :
           RecvMessage(s, m, lat, lng, TRUE)
    \/ \E s \in Sessions, o \in SendOutcomes : HeartbeatPing(s, o)
    \/ \E s \in Sessions : NewConnection(s)

SpecJoin == InitJoin /\ [][NextJoin]_vars

\* Concurrent calls of the broker and room methods.  The event loop runs
\* every task that is ready, so a call that can take its next lock or return
\* does so; when a task makes its next call is up to its caller.
InitLocks ==
    /\ StoreAssigned
    /\ vt = VtInit
    /\ WsInit(MaxLockCalls)

NextLocks ==
    \/ \E t \in Tasks, op \in LockOps, r \in RideIds, ch \in Channels : CallOp(t, op, r, ch)
    \/ \E t \in Tasks : AcquireLock(t)
    \/ \E t \in Tasks : ReturnOp(t)

SpecLocks ==
    /\ InitLocks
    /\ [][NextLocks]_vars
    /\ \A t \in Tasks : WF_vars(AcquireLock(t)) /\ WF_vars(ReturnOp(t))

\* ======================================================== claims
\* The adjacency sets as the specification lists them.
SpecAdjacency(s) ==
    IF s = "requested" THEN {"assigned", "canceled"}
    ELSE IF s = "assigned" THEN {"enroute", "canceled"}
    ELSE IF s = "enroute" THEN {"started", "canceled"}
    ELSE IF s = "started" THEN {"completed", "canceled"}
    ELSE {}

\* The step is a REST request of kind op being served.
Served(op) == reqNo' # reqNo /\ lastReq'.op = op

\* C7: for every pair (current, desired) with desired # current and desired
\* outside the adjacency set of current, _validate_transition raises the 409
\* conflict; for every pair inside the adjacency set it returns.
C7_ValidateTransitionFollowsGraph ==
    vt.result # None =>
        /\ (vt.new # vt.current /\ vt.new \notin SpecAdjacency(vt.current))
               => vt.result = "conflict"
        /\ vt.new \in SpecAdjacency(vt.current) => vt.result = "ok"

C7_Witness ==
    /\ vt.current = "requested" /\ vt.new = "started" /\ vt.result = "conflict"
    /\ vt.calls > 0

\* C8 (as claimed): a status update by the ride's assigned driver whose
\* desired status equals the current status succeeds, leaves the status
\* unchanged and records no new ride event.
C8_SameStatusUpdateIsNoOp ==
    [][(/\ Served("status")
        /\ rides[lastReq'.ride_id] # NoRide
        /\ rides[lastReq'.ride_id].driver_id = lastReq'.user
        /\ lastReq'.arg = rides[lastReq'.ride_id].status)
       => (/\ lastReq'.code = HTTP_200_OK
           /\ rides' = rides
           /\ events' = events)]_vars

\* The three conditions of an assignment, read before the request is served.
AssignAllowed(user, ride_id) ==
    /\ rides[ride_id].status = "requested"
    /\ rides[ride_id].driver_id = None
    /\ drivers[user] = "available"

\* C9: assign_driver is accepted only when the ride is requested, has no
\* driver and the calling driver is available; when one of these fails for a
\* driver assigning themselves to an existing ride the answer is 409, and the
\* ride's status, driver_id and the event list are as before.
C9_AssignOnlyWhenAllowed ==
    [][Served("assign") =>
        LET u == lastReq'.user
            r == lastReq'.ride_id
        IN  /\ lastReq'.code = HTTP_200_OK
                  => (UserRole(u) = "driver" /\ rides[r] # NoRide /\ AssignAllowed(u, r))
            /\ (UserRole(u) = "driver" /\ rides[r] # NoRide /\ ~AssignAllowed(u, r))
                  => (/\ lastReq'.code # HTTP_200_OK
                      /\ rides' = rides
                      /\ events' = events
                      /\ lastReq'.arg = u => lastReq'.code = HTTP_409_CONFLICT)]_vars

C9_Witness ==
    /\ lastReq.op = "assign" /\ lastReq.code = HTTP_409_CONFLICT
    /\ lastReq.user = lastReq.arg
    /\ rides[lastReq.ride_id].status = "requested"
    /\ rides[lastReq.ride_id].driver_id = None
    /\ drivers[lastReq.user] # "available"

\* The ride's rider asks for a status other than canceled while the ride is
\* requested.
RiderAsksNonCancel ==
    /\ Served("status")
    /\ rides[lastReq'.ride_id] # NoRide
    /\ rides[lastReq'.ride_id].rider_id = lastReq'.user
    /\ rides[lastReq'.ride_id].status = "requested"
    /\ lastReq'.arg # "canceled"

\* C10 (as claimed): the request is rejected as a conflict and the ride's
\* status is unchanged.
C10_RiderNonCancelIsConflict ==
    [][RiderAsksNonCancel =>
        (/\ lastReq'.code = HTTP_409_CONFLICT
         /\ rides'[lastReq'.ride_id].status = "requested")]_vars

\* C10 (amended): the request is rejected as forbidden (403), and the ride's
\* status and event list are unchanged.
C10_RiderNonCancelIsForbidden ==
    [][RiderAsksNonCancel =>
        (/\ lastReq'.code = HTTP_403_FORBIDDEN
         /\ rides' = rides
         /\ events' = events)]_vars

C10_Witness ==
    /\ lastReq.op = "status" /\ lastReq.arg = "started"
    /\ lastReq.code = HTTP_403_FORBIDDEN
    /\ rides[lastReq.ride_id].rider_id = lastReq.user
    /\ rides[lastReq.ride_id].status = "requested"

\* ------------------------------------------------- broker and sessions
\* the users that are keys of a mapping of the room
RoomUsers(room) ==
    {room.riders[i].k : i \in DOMAIN room.riders}
        \cup {room.drivers[i].k : i \in DOMAIN room.drivers}
        \cup {room.admins[i].k : i \in DOMAIN room.admins}

\* the connection of session s is a value of some mapping of some room
InSomeRoom(s) == \E i \in RoomRefs : s \in RoomConns(heap[i])

FrameTypes(s) == {sess[s].sent[i].type : i \in DOMAIN sess[s].sent}

\* C1 (as claimed): once the sends of broadcast_to_ride to one connection
\* have failed MAX_CONSECUTIVE_SEND_TIMEOUTS times in a row, counted across
\* calls, and the call that recorded the last failure has returned, the
\* connection's user is in none of the mappings of the ride's room.
C1_EvictedAfterThreeFailures ==
    \A s \in Sessions :
        (sess[s].fails >= MAX_CONSECUTIVE_SEND_TIMEOUTS /\ bcast.pc = "idle")
            => \A i \in RoomRefs :
                   heap[i].ride_id = sess[s].ride_id => sess[s].user \notin RoomUsers(heap[i])

\* C2: the registry maps a ride id to one RideRoom of that ride, the one
\* get_room last returned, and get_room returns the same RideRoom for a ride
\* id as long as cleanup_if_empty has not removed it, whatever sessions and
\* broadcasts call them in between.
C2_OneRoomPerRide ==
    /\ [](\A r \in RideIds :
             rooms[r] # 0 => (heap[rooms[r]].ride_id = r /\ got[r] = rooms[r]))
    /\ [][\A r \in RideIds : (got[r] # 0 /\ got'[r] # 0) => got'[r] = got[r]]_vars

C2_Witness ==
    /\ sess[1].pc = "active" /\ sess[2].pc = "active"
    /\ sess[1].room = sess[2].room
    /\ rooms["ride1"] = sess[1].room
    /\ bcast.pc = "sending" /\ bcast.room = sess[1].room

\* the channel rule as the specification states it
ChannelRule(channel, user, ride) ==
    /\ channel = "driver" => (UserRole(user) = "driver" /\ ride.driver_id = user)
    /\ channel = "rider" => (UserRole(user) = "rider" /\ ride.rider_id = user)
    /\ channel = "admin" => UserRole(user) = "driver"

\* C3: a connection is registered in a room only by a session whose token
\* names a known user, whose ride exists and for which the channel rule holds
\* when it connects; nothing else is ever a value of a room mapping.
C3_RegisteredOnlyWhenAuthorized ==
    /\ [](\A s \in Sessions : InSomeRoom(s) => sess[s].registered)
    /\ [][\A s \in Sessions :
            (sess'[s].registered /\ ~sess[s].registered)
                => (/\ sess'[s].token \in Users
                    /\ sess'[s].user = sess'[s].token
                    /\ rides[sess'[s].ride_id] # NoRide
                    /\ ChannelRule(sess'[s].channel, sess'[s].user,
                                   rides[sess'[s].ride_id]))]_vars

C3_Witness ==
    \E s \in Sessions :
        /\ sess[s].pc = "active" /\ sess[s].channel = "driver"
        /\ rooms["ride1"] # 0 /\ s \in RoomConns(heap[rooms["ride1"]])

\* C4: a connection attempt without a token is accepted, then closed with
\* the policy-violation code; it registers no connection, is sent no
\* connected message and gets no heartbeat.
C4_NoTokenIsClosed ==
    \A s \in Sessions :
        (sess[s].pc # "idle" /\ sess[s].token = "missing")
            => (/\ sess[s].client_state = "CONNECTED"
                /\ sess[s].pc = "closed"
                /\ sess[s].close_code = WS_POLICY_VIOLATION
                /\ ~sess[s].registered
                /\ ~InSomeRoom(s)
                /\ "connected" \notin FrameTypes(s)
                /\ sess[s].hb = "none")

C4_Witness ==
    \E s \in Sessions :
        /\ sess[s].token = "missing" /\ sess[s].channel = "driver"
        /\ sess[s].pc = "closed" /\ sess[s].close_code = WS_POLICY_VIOLATION

DriverLocationEvents(ride_id) ==
    SelectSeq(events, LAMBDA e : e.ride_id = ride_id /\ e.event_type = "driver_location")

\* C5 (as claimed): after the assigned driver's location message with
\* numeric lat and lng, sent while the rider is Active, the room caches the
\* location, one driver_location event is recorded, the rider's connection
\* is sent a driver_location message and the driver session stays Active.
C5_LocationIsCachedRecordedAndBroadcast ==
    \A s \in Sessions, q \in Sessions :
        (/\ sess[s].last = "location_ok"
         /\ sess[q].channel = "rider" /\ sess[q].pc = "active")
            => (/\ sess[s].pc = "active"
                /\ Len(DriverLocationEvents(sess[s].ride_id)) = 1
                /\ "driver_location" \in FrameTypes(q)
                /\ heap[sess[q].room].last_location.driver_id = sess[s].user)

\* C6 (as claimed), for the sessions that registered a connection: when the
\* session has ended, its teardown has run exactly once, its heartbeat is
\* not running and its connection is in no room.
C6_TeardownRunsOnce ==
    \A s \in Sessions :
        (sess[s].pc = "closed" /\ sess[s].registered)
            => (/\ sess[s].teardowns = 1
                /\ sess[s].hb # "running"
                /\ ~InSomeRoom(s))

\* the subscriber count of a channel, as RideRoom.snapshot reports it
ChannelCount(room, ch) ==
    IF ch = "rider" THEN Snapshot(room).rider_count
    ELSE IF ch = "driver" THEN Snapshot(room).driver_count
    ELSE Snapshot(room).admin_count

C12_UserInAtMostOneMapping ==
    \A i \in RoomRefs, u \in Users : Cardinality(ChannelsOf(heap[i], u)) <= 1

\* C13 (as claimed): a stored ride has a driver_id if and only if its status
\* is not requested.
C13_DriverIffNotRequested ==
    \A r \in RideIds :
        rides[r] # NoRide => (rides[r].driver_id # None <=> rides[r].status # "requested")

\* C13 (amended): a ride in status requested has no driver_id, and a ride
\* without driver_id is in status requested or canceled (canceled by its
\* rider before any driver was assigned).
C13_DriverUnlessRequestedOrCanceled ==
    \A r \in RideIds :
        rides[r] # NoRide =>
            /\ rides[r].status = "requested" => rides[r].driver_id = None
            /\ rides[r].driver_id = None => rides[r].status \in {"requested", "canceled"}

C13_Witness ==
    /\ rides["ride1"].status = "canceled"
    /\ rides["ride1"].driver_id = None
    /\ lastReq.op = "status" /\ lastReq.code = HTTP_200_OK

\* C14: cleanup_if_empty pops the registry entry of a ride exactly when the
\* snapshot it takes of the registered room shows no rider, no driver and no
\* admin; when it returns after seeing no subscriber the ride id is not in
\* the registry; and an entry leaves the registry only through such a call,
\* never while its room has a subscriber.
C14_CleanupRemovesExactlyEmptyRooms ==
    /\ [](cleanup.called =>
            /\ cleanup.removed <=>
                  (/\ cleanup.had_entry
                   /\ cleanup.rider_count = 0
                   /\ cleanup.driver_count = 0
                   /\ cleanup.admin_count = 0)
            /\ (cleanup.rider_count + cleanup.driver_count + cleanup.admin_count = 0)
                  => rooms[cleanup.ride_id] = 0
            /\ (cleanup.rider_count + cleanup.driver_count + cleanup.admin_count > 0)
                  => (/\ rooms[cleanup.ride_id] # 0
                      /\ RoomConns(heap[rooms[cleanup.ride_id]]) # {}))
    /\ [][\A r \in RideIds :
            (rooms[r] # 0 /\ rooms'[r] = 0)
                => (/\ cleanup'.called /\ cleanup'.ride_id = r /\ cleanup'.removed
                    /\ cleanup'.rider_count + cleanup'.driver_count
                           + cleanup'.admin_count = 0)]_vars

C14_Witness ==
    /\ cleanup.called /\ cleanup.removed /\ cleanup.ride_id = "ride1"
    /\ rooms["ride1"] = 0
    /\ \E s \in Sessions : sess[s].pc = "closed" /\ sess[s].teardowns = 1

\* C15 (as claimed): once the heartbeat of an Active session has failed to
\* send a ping and has set the stop flag, the session is eventually Closed,
\* whether or not the peer sends anything more.
C15_HeartbeatFailureClosesSession ==
    \A s \in Sessions :
        (sess[s].pc = "active" /\ sess[s].hb = "exited" /\ sess[s].stop)
            ~> (sess[s].pc = "closed")

\* C16 (as claimed): when a valid location message of the driver has been
\* handled and its driver_location event could not be appended, the message
\* has still been broadcast to the other subscribers of the room and the
\* driver's session is still Active.
C16_WriteFailureKeepsBroadcast ==
    \A s \in Sessions, q \in Sessions :
        (/\ sess[s].last = "location_ok"
         /\ DriverLocationEvents(sess[s].ride_id) = <<>>
         /\ q # s /\ sess[q].pc = "active" /\ sess[q].ride_id = sess[s].ride_id
         /\ rooms[sess[q].ride_id] # 0
         /\ q \in RoomConns(heap[rooms[sess[q].ride_id]]))
            => (/\ "driver_location" \in FrameTypes(q)
                /\ sess[s].pc = "active"
                /\ sess[s].close_code = 0)

\* C17 (as claimed): a broadcast_to_ride call that has copied the connection
\* list attempts the connections of the copy one after the other, once each,
\* and returns only after the attempt on the last one, whatever the sends do.
C17_BroadcastAttemptsEveryConnection ==
    [][(bcast.pc = "sending" /\ bcast' # bcast)
          => \/ /\ bcast'.pc = "sending"
                /\ bcast'.conns = bcast.conns
                /\ bcast'.i = bcast.i + 1
             \/ /\ bcast'.pc = "idle"
                /\ bcast.i = Len(bcast.conns)]_vars

StatusChangedSinceConnected(s) ==
    /\ sess[s].pc = "active"
    /\ \E i \in DOMAIN sess[s].sent :
          /\ sess[s].sent[i].type = "connected"
          /\ sess[s].sent[i].body.ride_status # rides[sess[s].ride_id].status

\* C19 (as claimed): when a ride changes status (assign or status update)
\* while a connection is subscribed to its room, the connection is
\* eventually sent a ride_status message, unless its session ends first.
C19_TransitionIsBroadcast ==
    \A s \in Sessions :
        StatusChangedSinceConnected(s)
            ~> ("ride_status" \in FrameTypes(s) \/ sess[s].pc = "closed")

DriverAssignedEvents(ride_id) ==
    SelectSeq(events, LAMBDA e : e.ride_id = ride_id /\ e.event_type = "driver_assigned")

\* C20 (as claimed): however the assign requests of available drivers for a
\* requested ride overlap, at most one of them is accepted: the ride has at
\* most one driver_assigned event, and once it has one the ride's driver_id
\* is the driver of that event.
C20_AtMostOneAssignAccepted ==
    \A r \in RideIds :
        /\ Len(DriverAssignedEvents(r)) <= 1
        /\ Len(DriverAssignedEvents(r)) = 1
              => rides[r].driver_id = DriverAssignedEvents(r)[1].payload.driver_id

C22_StatusUpdateOnlyByOwner ==
    [][Served("status") =>
        LET u == lastReq'.user
            ride == rides[lastReq'.ride_id]
        IN  /\ (rides' # rides \/ events' # events)
                  => /\ ride # NoRide
                     /\ \/ /\ UserRole(u) = "rider" /\ ride.rider_id = u
                           /\ lastReq'.arg = "canceled"
                           /\ ride.status \notin {"completed", "canceled"}
                        \/ /\ UserRole(u) = "driver"
                           /\ ride.driver_id # None /\ ride.driver_id = u
            /\ (UserRole(u) = "rider" /\ lastReq'.arg # "canceled")
                  => (rides' = rides /\ events' = events)]_vars

C22_Witness ==
    /\ lastReq.op = "status" /\ lastReq.code = HTTP_403_FORBIDDEN
    /\ UserRole(lastReq.user) = "driver"
    /\ rides[lastReq.ride_id].driver_id # None
    /\ rides[lastReq.ride_id].driver_id # lastReq.user

\* an authenticated session on an existing ride that the channel rule refuses
AuthorizationFailed(s) ==
    /\ sess[s].pc # "idle"
    /\ sess[s].token \in Users
    /\ rides[sess[s].ride_id] # NoRide
    /\ Authorize(sess[s].token, rides[sess[s].ride_id], sess[s].channel) # "ok"

\* an authenticated session whose ride id is not in the store
RideNotFound(s) ==
    /\ sess[s].pc # "idle"
    /\ sess[s].token \in Users
    /\ rides[sess[s].ride_id] = NoRide

ErrorFrames(s) == SelectSeq(sess[s].sent, LAMBDA f : f.type = "error")

\* C23 (as claimed): a session whose channel authorization failed is sent
\* no frame but at most one error frame, is closed with a forbidden close code
\* of its own, not the policy-violation code of the credential failures nor
\* the internal-error code, and its connection is never registered.
C23_AuthorizationFailureClosesForbidden ==
    \A s \in Sessions :
        AuthorizationFailed(s) =>
            /\ sess[s].pc = "closed"
            /\ Len(ErrorFrames(s)) <= 1
            /\ Len(sess[s].sent) = Len(ErrorFrames(s))
            /\ ~sess[s].registered /\ ~InSomeRoom(s)
            /\ sess[s].close_code \notin {0, WS_POLICY_VIOLATION, WS_INTERNAL_ERROR}

\* C24 (as claimed): an authenticated session whose ride does not exist is
\* closed with a not-found close code, different from the policy-violation
\* code of the credential failures and from the code authorization failures
\* are closed with, and registers no connection.
C24_MissingRideClosesNotFound ==
    \A s \in Sessions :
        RideNotFound(s) =>
            /\ sess[s].pc = "closed"
            /\ ~sess[s].registered /\ ~InSomeRoom(s)
            /\ sess[s].close_code # 0
            /\ sess[s].close_code # CloseCode(WS_POLICY_VIOLATION)
            /\ \A q \in Sessions :
                  (sess[q].pc = "closed" /\ sess[q].token \notin Users)
                      => sess[q].close_code # sess[s].close_code

\* C25 (as claimed): when every session has ended and no broadcast is in
\* flight, the registry has no entry for any ride.
C25_RegistryEmptyAfterLastSession ==
    (/\ \A s \in Sessions : sess[s].pc \in {"idle", "closed"}
     /\ \E s \in Sessions : sess[s].pc = "closed"
     /\ bcast.pc = "idle")
        => \A r \in RideIds : rooms[r] = 0

InvalidFormat == Frame("error", [message |-> "Invalid message format; expected JSON."])

\* C26: when an Active session whose heartbeat has not stopped it receives a
\* frame that is not JSON and the error frame can be sent, the sender gets
\* that one error frame, the session stays Active, and the rooms (their
\* subscribers and cached locations), the registry and the event store are
\* unchanged.
C26_InvalidJsonKeepsSession ==
    [][\A s \in Sessions :
          (~sess[s].stop /\ sess'[s].last = "invalid_json" /\ RecvInvalidJson(s, TRUE))
              => /\ sess'[s].sent = Append(sess[s].sent, InvalidFormat)
                 /\ sess'[s].pc = "active"
                 /\ sess'[s].close_code = 0
                 /\ heap' = heap /\ rooms' = rooms
                 /\ events' = events]_vars

C26_Witness ==
    \E s \in Sessions :
        /\ sess[s].last = "invalid_json" /\ sess[s].pc = "active"
        /\ Len(sess[s].sent) = 2
        /\ sess[s].sent[2] = InvalidFormat
        /\ InSomeRoom(s)

MissingLatLng == Frame("error", [message |-> "Missing lat/lng."])

\* C27: when an Active driver-channel session whose heartbeat has not stopped
\* it receives a location message without lat or without lng and the error
\* frame can be sent, the sender gets that one error frame, the session stays
\* Active, no broadcast starts, and the rooms, their cached location and the
\* event store are unchanged.
C27_MissingLatLngIsAnError ==
    [][\A s \in Sessions, lat \in JsonValues, lng \in JsonValues :
          (/\ sess[s].channel = "driver"
           /\ lat = None \/ lng = None
           /\ ~sess[s].stop
           /\ sess'[s].last = "location_missing"
           /\ RecvMessage(s, "location", lat, lng, TRUE))
              => /\ sess'[s].sent = Append(sess[s].sent, MissingLatLng)
                 /\ sess'[s].pc = "active"
                 /\ sess'[s].close_code = 0
                 /\ heap' = heap /\ rooms' = rooms
                 /\ events' = events
                 /\ bcast' = bcast]_vars

C27_Witness ==
    \E s \in Sessions :
        /\ sess[s].last = "location_missing" /\ sess[s].pc = "active"
        /\ sess[s].channel = "driver"
        /\ Len(sess[s].sent) = 2
        /\ sess[s].sent[2] = MissingLatLng
        /\ heap[sess[s].room].last_location = NoLocation

\* C28 (as claimed): after a driver-channel location message whose lat or
\* lng is present but not a number, the sender has been sent one error frame,
\* the session is still Active, and no location is cached and no event
\* recorded for it.
C28_NonNumericLatLngIsAnError ==
    \A s \in Sessions :
        sess[s].last = "location_nan"
            => /\ sess[s].pc = "active"
               /\ sess[s].close_code = 0
               /\ Len(ErrorFrames(s)) = 1
               /\ DriverLocationEvents(sess[s].ride_id) = <<>>

Ack(mtype) == Frame("ack", [received_type |-> mtype])

\* C29: when an Active rider-channel or admin-channel session whose
\* heartbeat has not stopped it receives a location message, whatever its lat
\* and lng, and the reply can be sent, the sender gets one ack of type
\* location, the session stays Active, no broadcast starts, and the rooms,
\* their cached location and the event store are unchanged.
C29_LocationOffDriverChannelIsAcked ==
    [][\A s \in Sessions, lat \in JsonValues, lng \in JsonValues :
          (/\ sess[s].channel \in {"rider", "admin"}
           /\ ~sess[s].stop
           /\ sess'[s] # sess[s]
           /\ RecvMessage(s, "location", lat, lng, TRUE))
              => /\ sess'[s].sent = Append(sess[s].sent, Ack("location"))
                 /\ sess'[s].pc = "active"
                 /\ heap' = heap /\ rooms' = rooms
                 /\ events' = events
                 /\ bcast' = bcast]_vars

C29_Witness ==
    \E s \in Sessions :
        /\ sess[s].channel = "admin" /\ sess[s].last = "location"
        /\ sess[s].pc = "active"
        /\ Len(sess[s].sent) = 2 /\ sess[s].sent[2] = Ack("location")
        /\ heap[sess[s].room].last_location = NoLocation


\* C30: on an active session whose heartbeat has not failed, a pong message
\* sends no frame and changes neither the session nor the registry, the
\* location cache, the ride events or the broadcasts; every other message
\* that is not a location message on the driver channel is answered, when
\* the send succeeds, with exactly one ack frame carrying the received type;
\* in both cases the session stays active.
C30_PongSilentOthersAcked ==
    [][\A s \in Sessions :
          /\ (~sess[s].stop /\ sess'[s].last = "pong" /\ RecvPong(s))
                 => /\ sess'[s] = [sess[s] EXCEPT !.last = "pong"]
                    /\ sess'[s].pc = "active"
                    /\ heap' = heap /\ rooms' = rooms
                    /\ events' = events /\ rides' = rides
                    /\ bcast' = bcast
          /\ \A m \in MessageTypes, lat \in JsonValues, lng \in JsonValues :
                 (/\ ~sess[s].stop
                  /\ ~(sess[s].channel = "driver" /\ m \in {"location", "driver_location"})
                  /\ sess'[s].last = m
                  /\ RecvMessage(s, m, lat, lng, TRUE))
                     => /\ sess'[s].sent = Append(sess[s].sent, Ack(m))
                        /\ sess'[s].pc = "active"
                        /\ heap' = heap /\ rooms' = rooms]_vars

\* one session took a pong and was sent nothing beyond its hydration frame,
\* a driver session took a message of another type and was sent the one ack
C30_Witness ==
    \E s, t \in Sessions :
        /\ sess[s].last = "pong" /\ sess[s].pc = "active"
        /\ Len(sess[s].sent) = 1
        /\ sess[t].channel = "driver" /\ sess[t].last = "hello"
        /\ sess[t].pc = "active"
        /\ Len(sess[t].sent) = 2 /\ sess[t].sent[2] = Ack("hello")


\* the connected frames a session was sent
ConnectedFrames(ss, s) == SelectSeq(ss[s].sent, LAMBDA f : f.type = "connected")

\* C32: the step on which a session passes authorization registers its
\* connection in the room the registry maps its ride to and prepares a
\* connected message whose last_location is the location that room caches at
\* that moment (absent when none is cached) and whose ride_status, rider_id and
\* driver_id are those of the stored ride; nothing is sent before it; when the
\* send of that message completes it is the one frame of the connection; and
\* no connection is ever sent two connected messages.
C32_HydrationCarriesRideAndCache ==
    [][\A s \in Sessions :
          /\ (sess[s].pc = "idle" /\ sess'[s].pc = "hydrating")
                 => LET r == sess'[s].ride_id
                        cached == IF rooms[r] = 0 THEN NoLocation
                                  ELSE heap[rooms[r]].last_location
                        body == sess'[s].pending.body
                    IN  /\ rooms'[r] # 0 /\ sess'[s].room = rooms'[r]
                        /\ s \in RoomConns(heap'[rooms'[r]])
                        /\ sess'[s].sent = <<>>
                        /\ sess'[s].pending.type = "connected"
                        /\ body.last_location = cached
                        /\ body.ride_status = rides[r].status
                        /\ body.rider_id = rides[r].rider_id
                        /\ body.driver_id = rides[r].driver_id
          /\ (sess[s].pc = "hydrating" /\ Hydrate(s, "ok"))
                 => sess'[s].sent = <<sess[s].pending>>
          /\ Len(ConnectedFrames(sess', s)) <= 1]_vars

\* a driver joined the room of an assigned ride in which another driver's
\* location is cached, and was sent the connected message carrying it
C32_Witness ==
    \E s \in Sessions :
        /\ sess[s].pc = "active" /\ Len(sess[s].sent) = 1
        /\ sess[s].sent[1].type = "connected"
        /\ sess[s].sent[1].body.last_location # NoLocation
        /\ sess[s].sent[1].body.last_location = heap[sess[s].room].last_location
        /\ sess[s].sent[1].body.ride_status = "assigned"
        /\ sess[s].sent[1].body.driver_id = "D1"


\* the step ends the Active session s by an exception raised in its loop
\* that is not a failed send: msg.get on a JSON value that is no object,
\* float() of a non-numeric value, the import of line 400
LoopFault(s) ==
    /\ sess[s].pc = "active" /\ sess'[s].pc = "closed"
    /\ sess'[s].last \in {"non_object", "location_nan", "location_ok"}
    /\ sess'[s].last # sess[s].last \/ sess'[s].teardowns # sess[s].teardowns

\* the rooms whose mappings hold the connection of session t
RoomsHolding(hp, t) == {i \in RoomRefs : t \in RoomConns(hp[i])}

\* C33 (as claimed): an internal fault in the message loop of a session runs
\* the session's teardown once, leaves its connection in no room, closes its
\* socket with the internal-error code, and leaves every other session's
\* connection registered where it was.
C33_LoopFaultClosesOnlyItsSession ==
    [][\A s \in Sessions :
          LoopFault(s)
              => /\ sess'[s].teardowns = sess[s].teardowns + 1
                 /\ RoomsHolding(heap', s) = {}
                 /\ sess[s].client_state = "CONNECTED"
                        => sess'[s].close_code = WS_INTERNAL_ERROR
                 /\ \A t \in Sessions \ {s} :
                        /\ RoomsHolding(heap', t) = RoomsHolding(heap, t)
                        /\ sess'[t] = sess[t]]_vars


\* the connection of session s is in the room the registry maps its ride to
InRegistryRoom(s) ==
    /\ rooms[sess[s].ride_id] # 0
    /\ sess[s].room = rooms[sess[s].ride_id]
    /\ s \in RoomConns(heap[rooms[sess[s].ride_id]])

\* C34 (as claimed): the connection of every Active session is registered in
\* the RideRoom the registry maps its ride id to, and every broadcast to the
\* ride that starts while the session is Active, with the flag of the
\* session's channel set, copies the connection into its delivery list.
C34_ActiveSessionIsInRegistryRoom ==
    [][\A s \in Sessions :
          sess[s].pc = "active"
              => /\ InRegistryRoom(s)
                 /\ \A f \in BroadcastFlags :
                        (/\ BroadcastStart(sess[s].ride_id, f[1], f[2], f[3])
                         /\ \/ sess[s].channel = "rider" /\ f[1]
                            \/ sess[s].channel = "driver" /\ f[2]
                            \/ sess[s].channel = "admin" /\ f[3])
                            => \E i \in DOMAIN bcast'.conns : bcast'.conns[i] = s]_vars


\* C35 (as claimed): over every step on which a session is and stays Active,
\* its sends having failed fewer than MAX_CONSECUTIVE_SEND_TIMEOUTS times in a
\* row, its connection stays a value of a mapping of its room: no connect,
\* teardown or eviction of another session removes or replaces it.
C35_RegistrationSurvivesOtherSessions ==
    [][\A s \in Sessions :
          (/\ sess[s].pc = "active" /\ sess'[s].pc = "active"
           /\ sess[s].fails < MAX_CONSECUTIVE_SEND_TIMEOUTS
           /\ s \in RoomConns(heap[sess[s].room]))
              => s \in RoomConns(heap'[sess[s].room])]_vars


\* C36 (as claimed): every connection that is a value of a mapping of a
\* room belongs to a session that has not ended.
C36_RoomsHoldOnlyLiveSessions ==
    \A s \in Sessions : RoomsHolding(heap, s) # {} => sess[s].pc # "closed"


\* a task that is about to enter broker._lock holds no lock
RegistryLockTakenFirst ==
    \A t \in Tasks :
        (task[t].pc = "running" /\ NextLock(task[t], rooms) = RegistryLock)
            => task[t].locks = <<>>

\* C37: in every interleaving of get_room, cleanup_if_empty, add, remove,
\* snapshot, location writes and connection-list copies by concurrent tasks,
\* a task enters the registry lock only while it holds no other lock (a room
\* lock is taken alone or after the registry lock), and every call that was
\* started returns.
C37_LockOrderAndEveryCallReturns ==
    /\ []RegistryLockTakenFirst
    /\ \A t \in Tasks : (task[t].pc = "running") ~> (task[t].pc = "idle")

\* cleanup_if_empty holds the registry lock and waits for the lock of the
\* ride's room, which another task holds inside a room method
C37_Witness ==
    \E t, u \in Tasks :
        /\ t # u
        /\ task[t].op = "cleanup_if_empty" /\ task[t].locks = <<RegistryLock>>
        /\ rooms[task[t].ride_id] # 0
        /\ task[u].pc = "running" /\ task[u].op \in RoomOps
        /\ task[u].locks = <<rooms[task[t].ride_id]>>


====
